---- MODULE Spec2Model ----
\* The GitHub CI/CD bot of sqlmesh: the run-all command and the single-stage
\* commands of sqlmesh/integrations/github/cicd/command.py, driving the check
\* runs of GithubController (controller.py).  The controller's collaborators
\* (the test engine, the plan engine, the GitHub API) are inputs: each call
\* returns or raises, chosen with \E.
EXTENDS Integers, Sequences, FiniteSets, TLC

\* ---------------------------------------------------------------- bounds
\* Number of reviews that reviewers post on the pull request (before or
\* during the run).
MaxReviews == 2
\* Number of update_*_check requests a caller of the controller makes.
MaxRequests == 3

\* ------------------------------------------------------------ enumerations
None == "None"

\* GithubCommitStatus
QUEUED == "queued"
IN_PROGRESS == "in_progress"
COMPLETED == "completed"
GithubCommitStatus == {QUEUED, IN_PROGRESS, COMPLETED}

\* GithubCommitConclusion
SUCCESS == "success"
FAILURE == "failure"
NEUTRAL == "neutral"
CANCELLED == "cancelled"
TIMED_OUT == "timed_out"
ACTION_REQUIRED == "action_required"
SKIPPED == "skipped"
GithubCommitConclusion ==
    {SUCCESS, FAILURE, NEUTRAL, CANCELLED, TIMED_OUT, ACTION_REQUIRED, SKIPPED}

\* UserRole
REQUIRED_APPROVER == "required_approver"
BOT == "bot"

\* The names the four update_*_check methods pass to _update_check.
TestCheckName == "SQLMesh - Run Unit Tests"
RequiredApprovalCheckName == "SQLMesh - Has Required Approval"
PrEnvironmentCheckName == "SQLMesh - PR Environment Synced"
ProdEnvironmentCheckName == "SQLMesh - Prod Environment Synced"
CheckNames ==
    {TestCheckName, RequiredApprovalCheckName, PrEnvironmentCheckName,
     ProdEnvironmentCheckName}

\* The github sub-commands of command.py.
Commands ==
    {"run_all", "run_tests", "check_required_approvers", "update_pr_environment",
     "deploy_production"}

\* self._pull_request.head.sha and self.pr_environment_name: fixed for a run.
HeadSha == "head_sha_of_pr"
pr_environment_name == "repo_1"

\* ------------------------------------------------------------------ inputs
\* The users a project configuration may list (sqlmesh.core.user.User): two
\* required approvers with a GitHub login, one without, and the bot account.
UserUniverse ==
    << [username |-> "alice", github_username |-> "alice", roles |-> {REQUIRED_APPROVER}],
       [username |-> "bob", github_username |-> "bob", roles |-> {REQUIRED_APPROVER}],
       [username |-> "carol", github_username |-> None, roles |-> {REQUIRED_APPROVER}],
       [username |-> "ci", github_username |-> "ci", roles |-> {BOT}] >>

\* The sub-list of s that keeps the positions in keep, in order.
RECURSIVE SubList(_, _, _)
SubList(s, keep, i) ==
    IF i > Len(s) THEN << >>
    ELSE (IF i \in keep THEN << s[i] >> ELSE << >>) \o SubList(s, keep, i + 1)

\* Every config.users list: a sub-list of UserUniverse.
UserLists == {SubList(UserUniverse, keep, 1) : keep \in SUBSET (1..Len(UserUniverse))}

\* The reviews reviewers may post (PullRequestReview: user.name and state).
ReviewUniverse ==
    { [user_name |-> "alice", state |-> "APPROVED"],
      [user_name |-> "bob", state |-> "APPROVED"],
      [user_name |-> "bob", state |-> "CHANGES_REQUESTED"],
      [user_name |-> None, state |-> "APPROVED"] }

\* str.lower() on the review states GitHub sends.
Lower(s) ==
    CASE s = "APPROVED" -> "approved"
      [] s = "CHANGES_REQUESTED" -> "changes_requested"
      [] OTHER -> s

VARIABLES
    cmd,                    \* the sub-command being run
    pc,                     \* the statement of command.py about to run
    config_users,           \* self._context.config.users
    pr_reviews,             \* the reviews on the pull request, at the host
    reviews_cache,          \* GithubController.__reviews
    approvers_cache,        \* GithubController.__approvers ({} = None or empty)
    check_run_mapping,      \* GithubController._check_run_mapping
    next_id,                \* the id the host gives the next created check run
    clock,                  \* datetime.now()
    calls,                  \* create_check_run / CheckRun.edit calls, in order
    invoked,                \* times each collaborator was invoked
    collaborator_errors,    \* the collaborators that raised an unexpected error
    plan_errors,            \* the collaborators and check calls that raised PlanError
    test_result,            \* what run_tests() returned
    tests_passed,           \* run_all's locals
    has_required_approval_,
    pr_environment_updated,
    raised,                 \* the error that left the command, or None
    exit_code,              \* the process exit code, once the command ended
    request,                \* the last update_*_check call made on the controller directly
    trino_pc,               \* the statement of TrinoEngineAdapter.drop_schema about to run
    trino_args,             \* the arguments of drop_schema and connection.catalog
    engine_objects,         \* the tables and views that exist at the engine
    data_objects,           \* the rest of the list the for loop of drop_schema walks
    executed,               \* the statements executed on the cursor, in order
    trino_raised,           \* the error that left drop_schema, or None
    issue_comments,         \* the bodies of the comments of the pull request, in order
    comment_request,        \* the last update_sqlmesh_comment_info call made directly
    deployed                \* what _deploy_production returned, "unset" before it returns

vars ==
    << cmd, pc, config_users, pr_reviews, reviews_cache, approvers_cache,
       check_run_mapping, next_id, clock, calls, invoked, collaborator_errors,
       plan_errors, test_result, tests_passed, has_required_approval_, pr_environment_updated,
       raised, exit_code, request, trino_pc, trino_args, engine_objects, data_objects,
       executed, trino_raised, issue_comments, comment_request, deployed >>

\* A local of run_all not assigned yet; assigned, it holds "True" or "False".
Unset == "unset"

Collaborators ==
    {"run_tests", "has_required_approval", "update_pr_environment", "deploy_to_prod"}

\* ------------------------------------------------- controller properties
\* GithubController._required_approvers: the users with the role, in order.
IsRequiredApprover(user) == REQUIRED_APPROVER \in user.roles
_required_approvers == SelectSeq(config_users, IsRequiredApprover)

\* Mutant of _reviews: every read lists the reviews at the host again.
_reviews_lists_again == [fetched |-> TRUE, items |-> pr_reviews]

\* GithubController._reviews: `if not self.__reviews` fetches; get_reviews()
\* returns the host's paginated list, an object that is true once it exists,
\* and that keeps the reviews it listed when it was first iterated.
_reviews ==
    IF ~ reviews_cache.fetched
    THEN [fetched |-> TRUE, items |-> pr_reviews]
    ELSE reviews_cache

\* GithubController._approvers: `if not self.__approvers` recomputes when the
\* cached set is None or empty.
ApproverName(review) == IF review.user_name = None THEN "UNKNOWN" ELSE review.user_name
_approvers ==
    IF approvers_cache = {}
    THEN {ApproverName(r) : r \in {x \in _reviews.items : Lower(x.state) = "approved"}}
    ELSE approvers_cache

\* The caches after a read of self._approvers.
ReadApprovers ==
    /\ approvers_cache' = _approvers
    /\ reviews_cache' = IF approvers_cache = {} THEN _reviews ELSE reviews_cache

\* GithubController._required_approvers_with_approval
HasApproved(user) == user.github_username \in _approvers
_required_approvers_with_approval == SelectSeq(_required_approvers, HasApproved)

\* Mutant of do_required_approval_check: the check is always made.
do_required_approval_check_always == TRUE

\* GithubController.do_required_approval_check
do_required_approval_check == Len(_required_approvers) # 0

\* Mutant of has_required_approval: every required approver must approve.
has_required_approval_all ==
    Len(_required_approvers_with_approval) = Len(_required_approvers)

\* GithubController.has_required_approval
has_required_approval ==
    IF Len(_required_approvers) = 0
    THEN TRUE
    ELSE Len(_required_approvers_with_approval) # 0

\* The property reads self._approvers once per required approver, so only
\* when there is one.
ReadsApprovers == Len(_required_approvers) # 0

\* ------------------------------------------------------------ _update_check
check_vars == << check_run_mapping, next_id, clock, calls >>

\* A title or summary: its text and the values formatted into it.  NoText is
\* the summary that `summary or title` replaces: None or the empty string.
Fmt(text, args) == << text, args >>
NoText == << >>

\* The keyword arguments _update_check builds.
CheckKwargs(name, status, title, conclusion, summary) ==
    LET keys ==
            {"name", "head_sha", "status", "output"}
                \cup (IF status = IN_PROGRESS THEN {"started_at"} ELSE {})
                \cup (IF status = COMPLETED THEN {"completed_at"} ELSE {})
                \cup (IF conclusion # None THEN {"conclusion"} ELSE {})
    IN  [k \in keys |->
            CASE k = "name" -> name
              [] k = "head_sha" -> HeadSha
              [] k = "status" -> status
              [] k = "started_at" -> clock
              [] k = "completed_at" -> clock
              [] k = "conclusion" -> conclusion
              [] k = "output" ->
                    [title |-> title,
                     summary |-> IF summary = NoText THEN title ELSE summary]]

\* Mutant of EditDropped: an edit is given started_at.
EditDropped_keeps_started_at == {"name", "head_sha"}

\* Mutant of EditDropped: an edit does not send the conclusion either.
EditDropped_with_conclusion == {"name", "head_sha", "started_at", "conclusion"}

\* The keys CheckRun.edit is not given.
EditDropped == {"name", "head_sha", "started_at"}

\* Mutant of _update_check: the mapping is not consulted, every call creates.
_update_check_always_creates(name, status, title, conclusion, summary, ok) ==
    /\ clock' = clock + 1
    /\ calls' = Append(calls,
            [op |-> "create", handle |-> next_id, ok |-> ok,
             kwargs |-> CheckKwargs(name, status, title, conclusion, summary)])
    /\ IF ok
       THEN /\ check_run_mapping' =
                    [n \in DOMAIN check_run_mapping \cup {name} |->
                        IF n = name THEN next_id ELSE check_run_mapping[n]]
            /\ next_id' = next_id + 1
       ELSE UNCHANGED << check_run_mapping, next_id >>

\* Mutant of _update_check: an edit is given every keyword argument.
_update_check_edit_resends(name, status, title, conclusion, summary, ok) ==
    LET kwargs == CheckKwargs(name, status, title, conclusion, summary)
    IN  /\ clock' = clock + 1
        /\ IF name \in DOMAIN check_run_mapping
           THEN /\ calls' = Append(calls,
                        [op |-> "edit", handle |-> check_run_mapping[name], ok |-> ok,
                         kwargs |-> kwargs])
                /\ UNCHANGED << check_run_mapping, next_id >>
           ELSE /\ calls' = Append(calls,
                        [op |-> "create", handle |-> next_id, ok |-> ok,
                         kwargs |-> kwargs])
                /\ IF ok
                   THEN /\ check_run_mapping' = check_run_mapping @@ (name :> next_id)
                        /\ next_id' = next_id + 1
                   ELSE UNCHANGED << check_run_mapping, next_id >>

\* GithubController._update_check: one outbound call, which returns (ok) or
\* raises.  A create that raises leaves the mapping as it was.
_update_check(name, status, title, conclusion, summary, ok) ==
    LET kwargs == CheckKwargs(name, status, title, conclusion, summary)
    IN  /\ clock' = clock + 1
        /\ IF name \in DOMAIN check_run_mapping
           THEN /\ calls' = Append(calls,
                        [op |-> "edit", handle |-> check_run_mapping[name], ok |-> ok,
                         kwargs |-> [k \in (DOMAIN kwargs) \ EditDropped |-> kwargs[k]]])
                /\ UNCHANGED << check_run_mapping, next_id >>
           ELSE /\ calls' = Append(calls,
                        [op |-> "create", handle |-> next_id, ok |-> ok,
                         kwargs |-> kwargs])
                /\ IF ok
                   THEN /\ check_run_mapping' = check_run_mapping @@ (name :> next_id)
                        /\ next_id' = next_id + 1
                   ELSE UNCHANGED << check_run_mapping, next_id >>

\* ---------------------------------------------------------- update_*_check
\* Each update_*_check(status, conclusion, out) is the call that ends with
\* outcome out: "ok", or the error it raises.  *_outcomes are the outcomes
\* the call can have.

\* Mutant of AssertFails: the assertion is compiled away.
AssertFails_never(status, conclusion) == FALSE

\* Mutant of AssertFails: a Queued request is rejected as well.
AssertFails_rejects_queued(status, conclusion) ==
    (status = COMPLETED /\ conclusion = None) \/ status = QUEUED

\* `assert conclusion`, reached when the status has no title or summary.
AssertFails(status, conclusion) == status = COMPLETED /\ conclusion = None

update_test_check_outcomes(status, conclusion, result) ==
    IF AssertFails(status, conclusion) THEN {"AssertionError"}
    ELSE {"ok", "ApiError"}
            \cup (IF status = COMPLETED /\ result # None THEN {"LogError"} ELSE {})

update_test_check(status, conclusion, result, out) ==
    LET title ==
            CASE status = IN_PROGRESS -> Fmt("Running Tests", << >>)
              [] status = QUEUED -> Fmt("Waiting to Run Tests", << >>)
              [] conclusion = SUCCESS -> Fmt("Tests Passed", << >>)
              [] OTHER -> Fmt("Tests Failed", << >>)
        summary ==
            IF status # COMPLETED THEN title
            ELSE IF result # None THEN Fmt("test results", << result >>)
            ELSE NoText
    IN  IF out \in {"AssertionError", "LogError"}
        THEN UNCHANGED check_vars
        ELSE _update_check(TestCheckName, status, title, conclusion, summary, out = "ok")

\* `user.github_username or user.username` of each user of the list.
RECURSIVE DisplayNames(_)
DisplayNames(users) ==
    IF users = << >> THEN << >>
    ELSE << IF Head(users).github_username = None
            THEN Head(users).username
            ELSE Head(users).github_username >> \o DisplayNames(Tail(users))

update_required_approval_check_outcomes(status, conclusion) ==
    IF AssertFails(status, conclusion) THEN {"AssertionError"} ELSE {"ok", "ApiError"}

update_required_approval_check(status, conclusion, out) ==
    LET title ==
            CASE status = IN_PROGRESS -> Fmt("Checking if we have required Approvers", << >>)
              [] status = QUEUED ->
                    Fmt("Waiting to Check if we have required Approvers", << >>)
              [] conclusion = SUCCESS ->
                    Fmt("Obtained approval from required approvers: ",
                        DisplayNames(_required_approvers_with_approval))
              [] OTHER -> Fmt("Need a Required Approval", << >>)
        summary ==
            Fmt(":information_source: List of possible required approvers: ",
                DisplayNames(_required_approvers))
    IN  IF out = "AssertionError"
        THEN UNCHANGED check_vars
        ELSE _update_check(RequiredApprovalCheckName, status, title, conclusion, summary,
                           out = "ok")

\* The title of a completed approval check formats
\* _required_approvers_with_approval, which reads self._approvers.
update_required_approval_check_reads(status) == status = COMPLETED /\ ReadsApprovers

update_pr_environment_check_outcomes(status, conclusion) ==
    IF AssertFails(status, conclusion) THEN {"AssertionError"}
    ELSE IF status = COMPLETED /\ conclusion = SUCCESS
    THEN {"ok", "PlanError", "SummaryError", "ApiError", "CommentError"}
    ELSE {"ok", "ApiError"}

update_pr_environment_check(status, conclusion, out) ==
    LET title == Fmt("Target Virtual Data Environment: ", << pr_environment_name >>)
        summary ==
            CASE status = QUEUED ->
                    Fmt(":pause_button: Waiting to create or update PR Environment",
                        << pr_environment_name >>)
              [] status = IN_PROGRESS ->
                    Fmt(":rocket: Creating or Updating PR Environment",
                        << pr_environment_name >>)
              [] conclusion = SUCCESS ->
                    Fmt("PR Environment Summary, Prod Plan Preview", << >>)
              [] conclusion = SKIPPED ->
                    Fmt(":next_track_button: Skipped creating or updating PR Environment",
                        << pr_environment_name >>)
              [] conclusion = FAILURE ->
                    Fmt(":x: Failed to create or update PR Environment",
                        << pr_environment_name >>)
              [] conclusion = CANCELLED ->
                    Fmt(":stop_sign: Cancelled creating or updating PR Environment",
                        << pr_environment_name >>)
              [] conclusion = ACTION_REQUIRED ->
                    Fmt(":warning: Action Required to create or update PR Environment",
                        << pr_environment_name >>)
              [] OTHER -> Fmt(":interrobang: Got an unexpected conclusion: ", << conclusion >>)
    IN  \* get_pr_affected_models() and self.prod_plan come before the call, and
        \* may raise PlanError or another error (SummaryError).
        IF out \in {"AssertionError", "PlanError", "SummaryError"}
        THEN UNCHANGED check_vars
        \* update_sqlmesh_comment_info comes after it.
        ELSE _update_check(PrEnvironmentCheckName, status, title, conclusion, summary,
                           out \in {"ok", "CommentError"})

update_prod_environment_check_outcomes(status, conclusion) ==
    IF AssertFails(status, conclusion) THEN {"AssertionError"} ELSE {"ok", "ApiError"}

update_prod_environment_check(status, conclusion, out) ==
    LET title ==
            CASE status = IN_PROGRESS -> Fmt("Deploying to Prod", << >>)
              [] status = QUEUED -> Fmt("Waiting to see if we can deploy to prod", << >>)
              [] conclusion = SUCCESS -> Fmt(":ship: Deployed to Prod", << >>)
              [] conclusion = CANCELLED -> Fmt(":stop_sign: Cancelled deploying to prod", << >>)
              [] conclusion = SKIPPED ->
                    Fmt(":next_track_button: Skipped deploying to prod since dependencies were not met",
                        << >>)
              [] conclusion = FAILURE -> Fmt(":x: Failed to deploy to prod", << >>)
              [] OTHER -> Fmt(":interrobang: Got an unexpected conclusion: ", << conclusion >>)
    IN  IF out = "AssertionError"
        THEN UNCHANGED check_vars
        ELSE _update_check(ProdEnvironmentCheckName, status, title, conclusion, NoText,
                           out = "ok")

\* ------------------------------------------------------------- the commands
\* What no command changes: the sub-command, the configuration, and the
\* requests of a direct caller.
trino_vars ==
    << trino_pc, trino_args, engine_objects, data_objects, executed, trino_raised >>
comment_vars == << issue_comments, comment_request >>
input_vars == << cmd, config_users, request, trino_vars, comment_vars >>
env_vars == << input_vars, deployed >>
cache_vars == << reviews_cache, approvers_cache >>
local_vars == << tests_passed, has_required_approval_, pr_environment_updated >>
count_vars == << invoked, collaborator_errors, plan_errors >>

\* No engine adapter call is made.
NoArgs ==
    [schema_name |-> None, catalog_name |-> None, connection_catalog |-> None,
     ignore_if_not_exists |-> TRUE, cascade |-> FALSE]
TrinoIdle ==
    /\ trino_pc = "idle"
    /\ trino_args = NoArgs
    /\ engine_objects = {}
    /\ data_objects = << >>
    /\ executed = << >>
    /\ trino_raised = None

\* No comment call is made.
NoCommentRequest ==
    [n |-> 0, value |-> None, find_regex |-> None, replace_if_exists |-> TRUE,
     before |-> << >>]
CommentIdle ==
    /\ issue_comments = << >>
    /\ comment_request = NoCommentRequest

\* No direct request was made.
NoRequest ==
    [n |-> 0, method |-> None, status |-> None, conclusion |-> None, out |-> None,
     sent |-> 0]

Init ==
    /\ cmd \in Commands
    /\ pc = CASE cmd = "run_all" -> "run_all_129"
              [] cmd = "run_tests" -> "_run_tests_55"
              [] cmd = "check_required_approvers" -> "_check_required_approvers_35"
              [] cmd = "update_pr_environment" -> "_update_pr_environment_80"
              [] cmd = "deploy_production" -> "_deploy_production_102"
    /\ config_users \in UserLists
    /\ pr_reviews = {}
    /\ reviews_cache = [fetched |-> FALSE, items |-> {}]
    /\ approvers_cache = {}
    /\ check_run_mapping = << >>
    /\ next_id = 1
    /\ clock = 1
    /\ calls = << >>
    /\ invoked = [c \in Collaborators |-> 0]
    /\ collaborator_errors = {}
    /\ plan_errors = {}
    /\ test_result = None
    /\ tests_passed = Unset
    /\ has_required_approval_ = Unset
    /\ pr_environment_updated = Unset
    /\ deployed = Unset
    /\ raised = None
    /\ exit_code = None
    /\ request = NoRequest
    /\ TrinoIdle
    /\ CommentIdle

\* Control moves to a statement, or the command returns to click, which exits
\* the process with code 0.
Goto(label) ==
    /\ pc' = label
    /\ exit_code' = IF label = "done" THEN "0" ELSE exit_code
    /\ UNCHANGED raised

\* Mutants of Raise: the error is swallowed and the command returns; the error
\* leaves the command but the process exits with code 0.
Raise_swallowed(error) ==
    /\ pc' = "done"
    /\ exit_code' = "0"
    /\ UNCHANGED raised
Raise_exit_zero(error) ==
    /\ pc' = "done"
    /\ raised' = error
    /\ exit_code' = "0"

\* An error leaves the command: nothing in command.py or bot.py catches it, and
\* the process ends with a traceback and exit code 1.
Raise(error) ==
    /\ pc' = "done"
    /\ raised' = error
    /\ exit_code' = "1"

\* Where a stage function returns to: the next statement of run_all, or the
\* end of the single-stage command that called it.
Return(run_all_label) == Goto(IF cmd = "run_all" THEN run_all_label ELSE "done")

\* A collaborator is invoked, and ends with outcome.
Invoke(collaborator, outcome) ==
    /\ invoked' = [invoked EXCEPT ![collaborator] = @ + 1]
    /\ collaborator_errors' =
            IF outcome = "Error"
            THEN collaborator_errors \cup {collaborator}
            ELSE collaborator_errors
    /\ plan_errors' =
            IF outcome = "PlanError"
            THEN plan_errors \cup {collaborator}
            ELSE plan_errors

\* A reviewer posts a review while the command runs.
PostReview ==
    /\ pc # "done"
    /\ Cardinality(pr_reviews) < MaxReviews
    /\ \E review \in ReviewUniverse \ pr_reviews : pr_reviews' = pr_reviews \cup {review}
    /\ UNCHANGED << env_vars, pc, cache_vars, check_vars, count_vars, test_result,
                    local_vars, raised, exit_code >>

\* run_all, line 129
run_all_129 ==
    /\ pc = "run_all_129"
    /\ \E out \in update_pr_environment_check_outcomes(QUEUED, None) :
        /\ update_pr_environment_check(QUEUED, None, out)
        /\ IF out = "ok" THEN Goto("run_all_130") ELSE Raise(out)
    /\ UNCHANGED << env_vars, pr_reviews, cache_vars, count_vars, test_result, local_vars >>

\* Mutant of run_all_130: the ProdDeploy check is not queued.
run_all_130_missing ==
    /\ pc = "run_all_130"
    /\ Goto("run_all_131")
    /\ UNCHANGED << env_vars, pr_reviews, cache_vars, check_vars, count_vars, test_result,
                    local_vars >>

\* run_all, line 130
run_all_130 ==
    /\ pc = "run_all_130"
    /\ \E out \in update_prod_environment_check_outcomes(QUEUED, None) :
        /\ update_prod_environment_check(QUEUED, None, out)
        /\ IF out = "ok" THEN Goto("run_all_131") ELSE Raise(out)
    /\ UNCHANGED << env_vars, pr_reviews, cache_vars, count_vars, test_result, local_vars >>

\* Mutant of run_all_131: the PR environment stage starts before the tests.
run_all_131_then_pr_environment ==
    /\ pc = "run_all_131"
    /\ \E out \in update_test_check_outcomes(QUEUED, None, None) :
        /\ update_test_check(QUEUED, None, None, out)
        /\ IF out = "ok" THEN Goto("_update_pr_environment_80") ELSE Raise(out)
    /\ UNCHANGED << env_vars, pr_reviews, cache_vars, count_vars, test_result, local_vars >>

\* run_all, line 131
run_all_131 ==
    /\ pc = "run_all_131"
    /\ \E out \in update_test_check_outcomes(QUEUED, None, None) :
        /\ update_test_check(QUEUED, None, None, out)
        /\ IF out = "ok" THEN Goto("_run_tests_55") ELSE Raise(out)
    /\ UNCHANGED << env_vars, pr_reviews, cache_vars, count_vars, test_result, local_vars >>

\* _run_tests, line 55
_run_tests_55 ==
    /\ pc = "_run_tests_55"
    /\ \E out \in update_test_check_outcomes(IN_PROGRESS, None, None) :
        /\ update_test_check(IN_PROGRESS, None, None, out)
        /\ IF out = "ok" THEN Goto("_run_tests_57") ELSE Raise(out)
    /\ UNCHANGED << env_vars, pr_reviews, cache_vars, count_vars, test_result, local_vars >>

\* _run_tests, line 57: controller.run_tests() returns the result of
\* Context.test(), whose tests passed or failed, or raises; `except Exception`
\* catches whatever it raises.
_run_tests_57 ==
    /\ pc = "_run_tests_57"
    /\ \E outcome \in {"passed", "failed", "Error"} :
        /\ Invoke("run_tests", outcome)
        /\ IF outcome = "Error"
           THEN Goto("_run_tests_66") /\ UNCHANGED test_result
           ELSE Goto("_run_tests_58") /\ test_result' = outcome
    /\ UNCHANGED << env_vars, pr_reviews, cache_vars, check_vars, local_vars >>

\* _run_tests, lines 58-64: still inside the try.
_run_tests_58 ==
    /\ pc = "_run_tests_58"
    /\ \E out \in update_test_check_outcomes(COMPLETED, SUCCESS, test_result) :
        /\ update_test_check(COMPLETED, SUCCESS, test_result, out)
        /\ IF out = "ok"
           THEN Return("run_all_133") /\ tests_passed' = "True"
           ELSE Goto("_run_tests_66") /\ UNCHANGED tests_passed
    /\ UNCHANGED << env_vars, pr_reviews, cache_vars, count_vars, test_result,
                    has_required_approval_, pr_environment_updated >>

\* Mutant of _run_tests_66: the except branch reports Success.
_run_tests_66_reports_success ==
    /\ pc = "_run_tests_66"
    /\ \E out \in update_test_check_outcomes(COMPLETED, SUCCESS, None) :
        /\ update_test_check(COMPLETED, SUCCESS, None, out)
        /\ IF out = "ok"
           THEN Return("run_all_133") /\ tests_passed' = "False"
           ELSE Raise(out) /\ UNCHANGED tests_passed
    /\ UNCHANGED << env_vars, pr_reviews, cache_vars, count_vars, test_result,
                    has_required_approval_, pr_environment_updated >>

\* _run_tests, lines 65-69: the except branch.
_run_tests_66 ==
    /\ pc = "_run_tests_66"
    /\ \E out \in update_test_check_outcomes(COMPLETED, FAILURE, None) :
        /\ update_test_check(COMPLETED, FAILURE, None, out)
        /\ IF out = "ok"
           THEN Return("run_all_133") /\ tests_passed' = "False"
           ELSE Raise(out) /\ UNCHANGED tests_passed
    /\ UNCHANGED << env_vars, pr_reviews, cache_vars, count_vars, test_result,
                    has_required_approval_, pr_environment_updated >>

\* Mutant of run_all_133: after failed tests the later stages are skipped.
run_all_133_skips_after_failed_tests ==
    /\ pc = "run_all_133"
    /\ IF tests_passed = "False"
       THEN Goto("run_all_142") /\ UNCHANGED has_required_approval_
       ELSE IF do_required_approval_check
       THEN Goto("run_all_134") /\ UNCHANGED has_required_approval_
       ELSE Goto("_update_pr_environment_80") /\ has_required_approval_' = "True"
    /\ UNCHANGED << env_vars, pr_reviews, cache_vars, check_vars, count_vars, test_result,
                    tests_passed, pr_environment_updated >>

\* run_all, lines 133 and 136-137
run_all_133 ==
    /\ pc = "run_all_133"
    /\ IF do_required_approval_check
       THEN Goto("run_all_134") /\ UNCHANGED has_required_approval_
       ELSE Goto("_update_pr_environment_80") /\ has_required_approval_' = "True"
    /\ UNCHANGED << env_vars, pr_reviews, cache_vars, check_vars, count_vars, test_result,
                    tests_passed, pr_environment_updated >>

\* run_all, line 134
run_all_134 ==
    /\ pc = "run_all_134"
    /\ \E out \in update_required_approval_check_outcomes(QUEUED, None) :
        /\ update_required_approval_check(QUEUED, None, out)
        /\ IF out = "ok" THEN Goto("_check_required_approvers_35") ELSE Raise(out)
    /\ UNCHANGED << env_vars, pr_reviews, cache_vars, count_vars, test_result, local_vars >>

\* _check_required_approvers, line 35
_check_required_approvers_35 ==
    /\ pc = "_check_required_approvers_35"
    /\ \E out \in update_required_approval_check_outcomes(IN_PROGRESS, None) :
        /\ update_required_approval_check(IN_PROGRESS, None, out)
        /\ IF out = "ok" THEN Goto("_check_required_approvers_36") ELSE Raise(out)
    /\ UNCHANGED << env_vars, pr_reviews, cache_vars, count_vars, test_result, local_vars >>

\* _check_required_approvers, line 36: controller.has_required_approval.  The
\* request for the reviews, when one is made, may raise.
_check_required_approvers_36 ==
    /\ pc = "_check_required_approvers_36"
    /\ \/ /\ Invoke("has_required_approval", "ok")
          /\ IF ReadsApprovers THEN ReadApprovers ELSE UNCHANGED cache_vars
          /\ Goto(IF has_required_approval
                  THEN "_check_required_approvers_37"
                  ELSE "_check_required_approvers_41")
       \/ /\ ReadsApprovers /\ approvers_cache = {} /\ ~ reviews_cache.fetched
          /\ Invoke("has_required_approval", "Error")
          /\ Raise("Error")
          /\ UNCHANGED cache_vars
    /\ UNCHANGED << env_vars, pr_reviews, check_vars, test_result, local_vars >>

\* _check_required_approvers, lines 37-40
_check_required_approvers_37 ==
    /\ pc = "_check_required_approvers_37"
    /\ IF update_required_approval_check_reads(COMPLETED)
       THEN ReadApprovers
       ELSE UNCHANGED cache_vars
    /\ \E out \in update_required_approval_check_outcomes(COMPLETED, SUCCESS) :
        /\ update_required_approval_check(COMPLETED, SUCCESS, out)
        /\ IF out = "ok"
           THEN Return("_update_pr_environment_80") /\ has_required_approval_' = "True"
           ELSE Raise(out) /\ UNCHANGED has_required_approval_
    /\ UNCHANGED << env_vars, pr_reviews, count_vars, test_result, tests_passed,
                    pr_environment_updated >>

\* Mutant of _check_required_approvers_41: the stage returns True.
_check_required_approvers_41_returns_true ==
    /\ pc = "_check_required_approvers_41"
    /\ IF update_required_approval_check_reads(COMPLETED)
       THEN ReadApprovers
       ELSE UNCHANGED cache_vars
    /\ \E out \in update_required_approval_check_outcomes(COMPLETED, NEUTRAL) :
        /\ update_required_approval_check(COMPLETED, NEUTRAL, out)
        /\ IF out = "ok"
           THEN Return("_update_pr_environment_80") /\ has_required_approval_' = "True"
           ELSE Raise(out) /\ UNCHANGED has_required_approval_
    /\ UNCHANGED << env_vars, pr_reviews, count_vars, test_result, tests_passed,
                    pr_environment_updated >>

\* _check_required_approvers, lines 41-44
_check_required_approvers_41 ==
    /\ pc = "_check_required_approvers_41"
    /\ IF update_required_approval_check_reads(COMPLETED)
       THEN ReadApprovers
       ELSE UNCHANGED cache_vars
    /\ \E out \in update_required_approval_check_outcomes(COMPLETED, NEUTRAL) :
        /\ update_required_approval_check(COMPLETED, NEUTRAL, out)
        /\ IF out = "ok"
           THEN Return("_update_pr_environment_80") /\ has_required_approval_' = "False"
           ELSE Raise(out) /\ UNCHANGED has_required_approval_
    /\ UNCHANGED << env_vars, pr_reviews, count_vars, test_result, tests_passed,
                    pr_environment_updated >>

\* _update_pr_environment, line 80
_update_pr_environment_80 ==
    /\ pc = "_update_pr_environment_80"
    /\ \E out \in update_pr_environment_check_outcomes(IN_PROGRESS, None) :
        /\ update_pr_environment_check(IN_PROGRESS, None, out)
        /\ IF out = "ok" THEN Goto("_update_pr_environment_82") ELSE Raise(out)
    /\ UNCHANGED << env_vars, pr_reviews, cache_vars, count_vars, test_result, local_vars >>

\* Mutant of _update_pr_environment_82: PlanError is not caught.
_update_pr_environment_82_plan_error_uncaught ==
    /\ pc = "_update_pr_environment_82"
    /\ \E outcome \in {"ok", "PlanError", "Error"} :
        /\ Invoke("update_pr_environment", outcome)
        /\ CASE outcome = "ok" -> Goto("_update_pr_environment_83")
             [] outcome = "PlanError" -> Raise("PlanError")
             [] outcome = "Error" -> Raise("Error")
    /\ UNCHANGED << env_vars, pr_reviews, cache_vars, check_vars, test_result, local_vars >>

\* _update_pr_environment, line 82: controller.update_pr_environment() returns,
\* raises PlanError (caught at line 87) or raises another error (not caught).
_update_pr_environment_82 ==
    /\ pc = "_update_pr_environment_82"
    /\ \E outcome \in {"ok", "PlanError", "Error"} :
        /\ Invoke("update_pr_environment", outcome)
        /\ CASE outcome = "ok" -> Goto("_update_pr_environment_83")
             [] outcome = "PlanError" -> Goto("_update_pr_environment_88")
             [] outcome = "Error" -> Raise("Error")
    /\ UNCHANGED << env_vars, pr_reviews, cache_vars, check_vars, test_result, local_vars >>

\* Mutant of _update_pr_environment_83: the except clause catches every error.
_update_pr_environment_83_catches_every_error ==
    /\ pc = "_update_pr_environment_83"
    /\ \E out \in update_pr_environment_check_outcomes(COMPLETED, SUCCESS) :
        /\ update_pr_environment_check(COMPLETED, SUCCESS, out)
        /\ CASE out = "ok" -> Return("run_all_139") /\ pr_environment_updated' = "True"
             [] OTHER ->
                    Goto("_update_pr_environment_88") /\ UNCHANGED pr_environment_updated
        /\ plan_errors' = IF out = "PlanError"
                          THEN plan_errors \cup {"update_pr_environment_check"}
                          ELSE plan_errors
    /\ UNCHANGED << env_vars, pr_reviews, cache_vars, invoked, collaborator_errors,
                    test_result, tests_passed, has_required_approval_ >>

\* _update_pr_environment, lines 83-86: still inside the try, so a PlanError
\* raised while the success summary is built is caught at line 87 as well.
_update_pr_environment_83 ==
    /\ pc = "_update_pr_environment_83"
    /\ \E out \in update_pr_environment_check_outcomes(COMPLETED, SUCCESS) :
        /\ update_pr_environment_check(COMPLETED, SUCCESS, out)
        /\ CASE out = "ok" -> Return("run_all_139") /\ pr_environment_updated' = "True"
             [] out = "PlanError" ->
                    Goto("_update_pr_environment_88") /\ UNCHANGED pr_environment_updated
             [] OTHER -> Raise(out) /\ UNCHANGED pr_environment_updated
        /\ plan_errors' = IF out = "PlanError"
                          THEN plan_errors \cup {"update_pr_environment_check"}
                          ELSE plan_errors
    /\ UNCHANGED << env_vars, pr_reviews, cache_vars, invoked, collaborator_errors,
                    test_result, tests_passed, has_required_approval_ >>

\* Mutant of _update_pr_environment_88: the except branch queues the check again.
_update_pr_environment_88_requeues ==
    /\ pc = "_update_pr_environment_88"
    /\ \E out \in update_pr_environment_check_outcomes(QUEUED, None) :
        /\ update_pr_environment_check(QUEUED, None, out)
        /\ IF out = "ok"
           THEN Return("run_all_139") /\ pr_environment_updated' = "False"
           ELSE Raise(out) /\ UNCHANGED pr_environment_updated
    /\ UNCHANGED << env_vars, pr_reviews, cache_vars, count_vars, test_result, tests_passed,
                    has_required_approval_ >>

\* Mutant of _update_pr_environment_88: the except branch returns True.
_update_pr_environment_88_returns_true ==
    /\ pc = "_update_pr_environment_88"
    /\ \E out \in update_pr_environment_check_outcomes(COMPLETED, ACTION_REQUIRED) :
        /\ update_pr_environment_check(COMPLETED, ACTION_REQUIRED, out)
        /\ IF out = "ok"
           THEN Return("run_all_139") /\ pr_environment_updated' = "True"
           ELSE Raise(out) /\ UNCHANGED pr_environment_updated
    /\ UNCHANGED << env_vars, pr_reviews, cache_vars, count_vars, test_result, tests_passed,
                    has_required_approval_ >>

\* _update_pr_environment, lines 87-91: the except PlanError branch.
_update_pr_environment_88 ==
    /\ pc = "_update_pr_environment_88"
    /\ \E out \in update_pr_environment_check_outcomes(COMPLETED, ACTION_REQUIRED) :
        /\ update_pr_environment_check(COMPLETED, ACTION_REQUIRED, out)
        /\ IF out = "ok"
           THEN Return("run_all_139") /\ pr_environment_updated' = "False"
           ELSE Raise(out) /\ UNCHANGED pr_environment_updated
    /\ UNCHANGED << env_vars, pr_reviews, cache_vars, count_vars, test_result, tests_passed,
                    has_required_approval_ >>

\* Mutants of DeployGate: the gate without the PR environment's result, and
\* without the tests' result.
DeployGate_without_pr_environment ==
    tests_passed = "True" /\ has_required_approval_ = "True"
DeployGate_without_tests ==
    has_required_approval_ = "True" /\ pr_environment_updated = "True"

\* The condition of run_all, line 139.
DeployGate ==
    tests_passed = "True" /\ has_required_approval_ = "True"
        /\ pr_environment_updated = "True"

\* run_all, line 139
run_all_139 ==
    /\ pc = "run_all_139"
    /\ IF DeployGate
       THEN Goto("_deploy_production_102")
       ELSE Goto("run_all_142")
    /\ UNCHANGED << env_vars, pr_reviews, cache_vars, check_vars, count_vars, test_result,
                    local_vars >>

\* Mutant of run_all_142: the else branch is missing.
run_all_142_missing ==
    /\ pc = "run_all_142"
    /\ Goto("done")
    /\ UNCHANGED << env_vars, pr_reviews, cache_vars, check_vars, count_vars, test_result,
                    local_vars >>

\* run_all, lines 142-144
run_all_142 ==
    /\ pc = "run_all_142"
    /\ \E out \in update_prod_environment_check_outcomes(COMPLETED, SKIPPED) :
        /\ update_prod_environment_check(COMPLETED, SKIPPED, out)
        /\ IF out = "ok" THEN Goto("done") ELSE Raise(out)
    /\ UNCHANGED << env_vars, pr_reviews, cache_vars, count_vars, test_result, local_vars >>

\* _deploy_production, line 102
_deploy_production_102 ==
    /\ pc = "_deploy_production_102"
    /\ \E out \in update_prod_environment_check_outcomes(IN_PROGRESS, None) :
        /\ update_prod_environment_check(IN_PROGRESS, None, out)
        /\ IF out = "ok" THEN Goto("_deploy_production_104") ELSE Raise(out)
    /\ UNCHANGED << env_vars, pr_reviews, cache_vars, count_vars, test_result, local_vars >>

\* _deploy_production, line 104: controller.deploy_to_prod() returns, raises
\* PlanError (caught at line 109) or raises another error (not caught).
_deploy_production_104 ==
    /\ pc = "_deploy_production_104"
    /\ \E outcome \in {"ok", "PlanError", "Error"} :
        /\ Invoke("deploy_to_prod", outcome)
        /\ CASE outcome = "ok" -> Goto("_deploy_production_105")
             [] outcome = "PlanError" -> Goto("_deploy_production_111")
             [] outcome = "Error" -> Raise("Error")
    /\ UNCHANGED << env_vars, pr_reviews, cache_vars, check_vars, test_result, local_vars >>

\* Mutant of _deploy_production_105: a deploy that returned is reported Neutral.
_deploy_production_105_reports_neutral ==
    /\ pc = "_deploy_production_105"
    /\ \E out \in update_prod_environment_check_outcomes(COMPLETED, NEUTRAL) :
        /\ update_prod_environment_check(COMPLETED, NEUTRAL, out)
        /\ IF out = "ok"
           THEN Goto("done") /\ deployed' = "True"
           ELSE Raise(out) /\ UNCHANGED deployed
    /\ UNCHANGED << input_vars, pr_reviews, cache_vars, count_vars, test_result, local_vars >>

\* _deploy_production, lines 105-108: the stage returns True, which no caller
\* reads.
_deploy_production_105 ==
    /\ pc = "_deploy_production_105"
    /\ \E out \in update_prod_environment_check_outcomes(COMPLETED, SUCCESS) :
        /\ update_prod_environment_check(COMPLETED, SUCCESS, out)
        /\ IF out = "ok"
           THEN Goto("done") /\ deployed' = "True"
           ELSE Raise(out) /\ UNCHANGED deployed
    /\ UNCHANGED << input_vars, pr_reviews, cache_vars, count_vars, test_result, local_vars >>

\* Mutant of _deploy_production_111: the except branch reports Success.
_deploy_production_111_reports_success ==
    /\ pc = "_deploy_production_111"
    /\ \E out \in update_prod_environment_check_outcomes(COMPLETED, SUCCESS) :
        /\ update_prod_environment_check(COMPLETED, SUCCESS, out)
        /\ IF out = "ok"
           THEN Goto("done") /\ deployed' = "False"
           ELSE Raise(out) /\ UNCHANGED deployed
    /\ UNCHANGED << input_vars, pr_reviews, cache_vars, count_vars, test_result, local_vars >>

\* _deploy_production, lines 109-114
_deploy_production_111 ==
    /\ pc = "_deploy_production_111"
    /\ \E out \in update_prod_environment_check_outcomes(COMPLETED, ACTION_REQUIRED) :
        /\ update_prod_environment_check(COMPLETED, ACTION_REQUIRED, out)
        /\ IF out = "ok"
           THEN Goto("done") /\ deployed' = "False"
           ELSE Raise(out) /\ UNCHANGED deployed
    /\ UNCHANGED << input_vars, pr_reviews, cache_vars, count_vars, test_result, local_vars >>

Next ==
    \/ PostReview
    \/ run_all_129
    \/ run_all_130
    \/ run_all_131
    \/ _run_tests_55
    \/ _run_tests_57
    \/ _run_tests_58
    \/ _run_tests_66
    \/ run_all_133
    \/ run_all_134
    \/ _check_required_approvers_35
    \/ _check_required_approvers_36
    \/ _check_required_approvers_37
    \/ _check_required_approvers_41
    \/ _update_pr_environment_80
    \/ _update_pr_environment_82
    \/ _update_pr_environment_83
    \/ _update_pr_environment_88
    \/ run_all_139
    \/ run_all_142
    \/ _deploy_production_102
    \/ _deploy_production_104
    \/ _deploy_production_105
    \/ _deploy_production_111

Spec == Init /\ [][Next]_vars

\* ------------------------------------------- the controller, called directly
\* The four update_*_check methods are public: a caller may request any status
\* with any conclusion, in any order.
RequestConclusions == {None, SUCCESS, FAILURE}

\* The request a call makes: its number, the method, the arguments, the outcome
\* and the number of outbound calls it made.
Request(method, status, conclusion, out) ==
    [n |-> request.n + 1, method |-> method, status |-> status,
     conclusion |-> conclusion, out |-> out, sent |-> Len(calls') - Len(calls)]

\* The reviews on the pull request when the caller starts: the reviewers have
\* posted all of theirs, alice's approval among them.
PostedReviews ==
    CHOOSE reviews \in SUBSET ReviewUniverse :
        /\ Cardinality(reviews) = MaxReviews
        /\ [user_name |-> "alice", state |-> "APPROVED"] \in reviews

ControllerInit ==
    /\ cmd = "controller"
    /\ pc = "caller"
    /\ config_users \in {<< >>, UserUniverse}
    /\ pr_reviews = PostedReviews
    /\ reviews_cache = [fetched |-> FALSE, items |-> {}]
    /\ approvers_cache = {}
    /\ check_run_mapping = << >>
    /\ next_id = 1
    /\ clock = 1
    /\ calls = << >>
    /\ invoked = [c \in Collaborators |-> 0]
    /\ collaborator_errors = {}
    /\ plan_errors = {}
    /\ test_result = None
    /\ tests_passed = Unset
    /\ has_required_approval_ = Unset
    /\ pr_environment_updated = Unset
    /\ deployed = Unset
    /\ raised = None
    /\ exit_code = None
    /\ request = NoRequest
    /\ TrinoIdle
    /\ CommentIdle

caller_vars ==
    << cmd, pc, config_users, pr_reviews, count_vars, test_result, local_vars, raised,
       exit_code, trino_vars, comment_vars, deployed >>

CallUpdateTestCheck ==
    /\ pc = "caller" /\ request.n < MaxRequests
    /\ \E status \in GithubCommitStatus, conclusion \in RequestConclusions,
          result \in {None, "failed"} :
        \E out \in update_test_check_outcomes(status, conclusion, result) :
            /\ update_test_check(status, conclusion, result, out)
            /\ request' = Request("update_test_check", status, conclusion, out)
    /\ UNCHANGED << caller_vars, cache_vars >>

CallUpdateRequiredApprovalCheck ==
    /\ pc = "caller" /\ request.n < MaxRequests
    /\ \E status \in GithubCommitStatus, conclusion \in RequestConclusions :
        \E out \in update_required_approval_check_outcomes(status, conclusion) :
            /\ IF update_required_approval_check_reads(status) /\ out # "AssertionError"
               THEN ReadApprovers
               ELSE UNCHANGED cache_vars
            /\ update_required_approval_check(status, conclusion, out)
            /\ request' = Request("update_required_approval_check", status, conclusion, out)
    /\ UNCHANGED caller_vars

CallUpdatePrEnvironmentCheck ==
    /\ pc = "caller" /\ request.n < MaxRequests
    /\ \E status \in GithubCommitStatus, conclusion \in RequestConclusions :
        \E out \in update_pr_environment_check_outcomes(status, conclusion) :
            /\ update_pr_environment_check(status, conclusion, out)
            /\ request' = Request("update_pr_environment_check", status, conclusion, out)
    /\ UNCHANGED << caller_vars, cache_vars >>

CallUpdateProdEnvironmentCheck ==
    /\ pc = "caller" /\ request.n < MaxRequests
    /\ \E status \in GithubCommitStatus, conclusion \in RequestConclusions :
        \E out \in update_prod_environment_check_outcomes(status, conclusion) :
            /\ update_prod_environment_check(status, conclusion, out)
            /\ request' = Request("update_prod_environment_check", status, conclusion, out)
    /\ UNCHANGED << caller_vars, cache_vars >>

ControllerNext ==
    \/ CallUpdateTestCheck
    \/ CallUpdateRequiredApprovalCheck
    \/ CallUpdatePrEnvironmentCheck
    \/ CallUpdateProdEnvironmentCheck

ControllerSpec == ControllerInit /\ [][ControllerNext]_vars

\* The commands, and the controller called directly.
FullInit == Init \/ ControllerInit
FullNext == Next \/ ControllerNext
FullSpec == FullInit /\ [][FullNext]_vars

\* ------------------------------------------------ the checks, at the host
\* The create_check_run calls made for a name, and those that returned.
CreateCalls(name) ==
    {i \in DOMAIN calls : calls[i].op = "create" /\ calls[i].kwargs["name"] = name}
CreatedEntries(name) == {i \in CreateCalls(name) : calls[i].ok}

\* The calls that reached the check run of a name: its create and the edits
\* of the handle that create returned.
CallsOf(name) ==
    {i \in DOMAIN calls :
        /\ calls[i].ok
        /\ \E j \in CreatedEntries(name) : calls[j].handle = calls[i].handle}

Last(indices) == CHOOSE i \in indices : \A j \in indices : j <= i

\* The status and the conclusion the host shows for a name: those of the last
\* call that reached its check run; None when it has none.
StatusOf(name) ==
    IF CallsOf(name) = {} THEN None ELSE calls[Last(CallsOf(name))].kwargs["status"]
ConclusionOf(name) ==
    IF CallsOf(name) = {} THEN None
    ELSE LET kwargs == calls[Last(CallsOf(name))].kwargs
         IN  IF "conclusion" \in DOMAIN kwargs THEN kwargs["conclusion"] ELSE None
CheckIs(name, status, conclusion) ==
    StatusOf(name) = status /\ ConclusionOf(name) = conclusion

\* Every outbound status call so far returned.
StatusCallsOk == \A i \in DOMAIN calls : calls[i].ok

RunAll == cmd = "run_all"
\* run_all returned to its caller / ended, by a return or by an error.
Returned == pc = "done" /\ raised = None
Ended == pc = "done"

\* ------------------------------------------------------------------ claims
\* Tests passed, RequiredApproval passed or was not required, and
\* PrEnvironmentSync succeeded.
AllStagesPassed ==
    tests_passed = "True" /\ has_required_approval_ = "True"
        /\ pr_environment_updated = "True"

\* The project configuration lists a user with the required-approver role.
RequiredApproversConfigured ==
    \E i \in DOMAIN config_users : REQUIRED_APPROVER \in config_users[i].roles


C2_Original ==
    (RunAll /\ tests_passed = "False" /\ StatusCallsOk) =>
        /\ invoked["has_required_approval"] = 0
        /\ invoked["update_pr_environment"] = 0
        /\ Ended => ConclusionOf(ProdEnvironmentCheckName) = SKIPPED

\* C2, amended: in a run-all run where Tests fails, deploy_to_prod is never
\* invoked, and when run_all returns without an error the ProdDeploy check's
\* conclusion is Skipped; the approval evaluation (when required approvers
\* are configured) and update_pr_environment have then each been invoked once.
C2_TestsFailSkipsDeployOnly ==
    (RunAll /\ tests_passed = "False") =>
        /\ invoked["deploy_to_prod"] = 0
        /\ Returned =>
            /\ ConclusionOf(ProdEnvironmentCheckName) = SKIPPED
            /\ invoked["update_pr_environment"] = 1
            /\ invoked["has_required_approval"] =
                    IF RequiredApproversConfigured THEN 1 ELSE 0

\* A run-all run that returned after Tests failed, with required approvers
\* configured and both later collaborators invoked.
C2_Witness ==
    /\ RunAll /\ Returned /\ tests_passed = "False"
    /\ invoked["has_required_approval"] = 1
    /\ invoked["update_pr_environment"] = 1
    /\ ConclusionOf(ProdEnvironmentCheckName) = SKIPPED

\* C3 as stated: in a run-all run where Tests fails, the Tests check ends
\* Completed/Failure and the RequiredApproval, PrEnvironmentSync and
\* ProdDeploy checks all end Completed/Skipped.  Stated on the runs whose
\* status calls all succeed.
C3_Original ==
    (RunAll /\ Ended /\ tests_passed = "False" /\ StatusCallsOk) =>
        /\ CheckIs(TestCheckName, COMPLETED, FAILURE)
        /\ CheckIs(RequiredApprovalCheckName, COMPLETED, SKIPPED)
        /\ CheckIs(PrEnvironmentCheckName, COMPLETED, SKIPPED)
        /\ CheckIs(ProdEnvironmentCheckName, COMPLETED, SKIPPED)

\* C3, amended: in a run-all run where the Tests stage fails and run_all
\* returns without an error, the Tests check ends Completed/Failure and the
\* ProdDeploy check ends Completed/Skipped; the RequiredApproval check (made
\* only when required approvers are configured) ends Completed with Success
\* or Neutral and the PrEnvironmentSync check ends Completed with Success or
\* ActionRequired, neither of them Skipped.
C3_TestsFailChecks ==
    (RunAll /\ Returned /\ tests_passed = "False") =>
        /\ CheckIs(TestCheckName, COMPLETED, FAILURE)
        /\ CheckIs(ProdEnvironmentCheckName, COMPLETED, SKIPPED)
        /\ StatusOf(PrEnvironmentCheckName) = COMPLETED
        /\ ConclusionOf(PrEnvironmentCheckName) \in {SUCCESS, ACTION_REQUIRED}
        /\ IF RequiredApproversConfigured
           THEN /\ StatusOf(RequiredApprovalCheckName) = COMPLETED
                /\ ConclusionOf(RequiredApprovalCheckName) \in {SUCCESS, NEUTRAL}
           ELSE StatusOf(RequiredApprovalCheckName) = None

\* A run-all run that returned after Tests failed, with the approval obtained
\* and the PR environment synced.
C3_Witness ==
    /\ RunAll /\ Returned /\ tests_passed = "False"
    /\ CheckIs(TestCheckName, COMPLETED, FAILURE)
    /\ CheckIs(RequiredApprovalCheckName, COMPLETED, SUCCESS)
    /\ CheckIs(PrEnvironmentCheckName, COMPLETED, SUCCESS)
    /\ CheckIs(ProdEnvironmentCheckName, COMPLETED, SKIPPED)

StageCheck(collaborator) ==
    CASE collaborator = "run_tests" -> TestCheckName
      [] collaborator = "has_required_approval" -> RequiredApprovalCheckName
      [] collaborator = "update_pr_environment" -> PrEnvironmentCheckName
      [] collaborator = "deploy_to_prod" -> ProdEnvironmentCheckName

ParticipatingChecks ==
    {TestCheckName, PrEnvironmentCheckName, ProdEnvironmentCheckName}
        \cup (IF RequiredApproversConfigured THEN {RequiredApprovalCheckName} ELSE {})
OverallSuccess == \A name \in ParticipatingChecks : CheckIs(name, COMPLETED, SUCCESS)

RequiredIdentities ==
    {config_users[i].github_username :
        i \in {j \in DOMAIN config_users : REQUIRED_APPROVER \in config_users[j].roles}}
            \ {None}
ApprovedNames(reviews) ==
    {IF r.user_name = None THEN "UNKNOWN" ELSE r.user_name :
        r \in {x \in reviews : x.state \in {"APPROVED", "approved", "Approved"}}}
GatePasses == RequiredIdentities \cap approvers_cache # {}

\* C8: the approval gate passes for every approver set when no required
\* approvers are configured, and otherwise passes if and only if at least one
\* required approver's identity is in the approver set.
C8_ApprovalGate ==
    pc \in {"_check_required_approvers_37", "_check_required_approvers_41"} =>
        /\ RequiredApproversConfigured =>
            /\ reviews_cache.items \subseteq pr_reviews
            /\ approvers_cache = ApprovedNames(reviews_cache.items)
        /\ pc = "_check_required_approvers_37" <=>
                (~ RequiredApproversConfigured \/ GatePasses)

\* The gate passed with two required approvers of whom one had not approved.
C8_Witness ==
    /\ pc = "_check_required_approvers_37"
    /\ Cardinality(RequiredIdentities) >= 2
    /\ RequiredIdentities \ approvers_cache # {}

\* C9: when no required approvers are configured, a run-all run never creates
\* or updates the RequiredApproval check, never evaluates the gate, and the
\* gate counts as passed for the ProdDeploy decision: the deploy is skipped
\* only when Tests or PrEnvironmentSync did not pass.
C9_ApprovalOmitted ==
    (RunAll /\ ~ RequiredApproversConfigured) =>
        /\ CreateCalls(RequiredApprovalCheckName) = {}
        /\ RequiredApprovalCheckName \notin DOMAIN check_run_mapping
        /\ invoked["has_required_approval"] = 0
        /\ has_required_approval_ \in {Unset, "True"}
        /\ pc \in {"run_all_139", "run_all_142", "_deploy_production_102"} =>
                has_required_approval_ = "True"
        /\ pc = "run_all_142" =>
                (tests_passed # "True" \/ pr_environment_updated # "True")

\* A run-all run without required approvers that is about to deploy.
C9_Witness ==
    /\ RunAll /\ ~ RequiredApproversConfigured
    /\ pc = "_deploy_production_104"
    /\ Len(calls) >= 6

C11_PlanErrorActionRequired ==
    (RunAll /\ "update_pr_environment" \in plan_errors) =>
        /\ raised \notin {"PlanError", "Error"}
        /\ pc \in {"_update_pr_environment_88", "run_all_139", "run_all_142", "done"}
        /\ invoked["deploy_to_prod"] = 0
        /\ (pc \in {"run_all_139", "run_all_142"} \/ Returned) =>
            /\ CheckIs(PrEnvironmentCheckName, COMPLETED, ACTION_REQUIRED)
            /\ pr_environment_updated = "False"
        /\ (Ended /\ StatusCallsOk) =>
            /\ Returned
            /\ CheckIs(ProdEnvironmentCheckName, COMPLETED, SKIPPED)

\* A run-all run without required approvers that returned after
\* update_pr_environment raised PlanError.
C11_Witness ==
    /\ RunAll /\ Returned /\ ~ RequiredApproversConfigured
    /\ "update_pr_environment" \in plan_errors
    /\ StatusOf(RequiredApprovalCheckName) = None
    /\ CheckIs(PrEnvironmentCheckName, COMPLETED, ACTION_REQUIRED)
    /\ CheckIs(ProdEnvironmentCheckName, COMPLETED, SKIPPED)

\* C12: the Tests check concludes Success only if the result run_tests
\* returned reports that the tests passed, it concludes Failure when the
\* result reports that they did not, and the stage's passed flag agrees with
\* the conclusion.  Stated on the stages in which run_tests returned a result.
C12_TestsConclusion ==
    (StatusOf(TestCheckName) = COMPLETED /\ test_result # None /\ tests_passed # Unset) =>
        /\ ConclusionOf(TestCheckName) = SUCCESS => test_result = "passed"
        /\ test_result = "failed" => ConclusionOf(TestCheckName) = FAILURE
        /\ tests_passed = "True" <=> ConclusionOf(TestCheckName) = SUCCESS

\* The check of a name was created with status Queued by a call before the
\* i-th one.
QueuedBefore(name, i) ==
    \E j \in 1..(i - 1) :
        /\ calls[j].op = "create" /\ calls[j].ok
        /\ calls[j].kwargs["name"] = name
        /\ calls[j].kwargs["status"] = QUEUED

\* The checks in names were all Queued before any check was moved to
\* InProgress and before any collaborator was invoked.
QueuedUpFront(names) ==
    /\ \A i \in DOMAIN calls :
        calls[i].kwargs["status"] = IN_PROGRESS =>
            \A name \in names : QueuedBefore(name, i)
    /\ (\E c \in Collaborators : invoked[c] > 0) =>
            \A name \in names : QueuedBefore(name, Len(calls) + 1)

\* C13 as stated: in a run-all run every participating stage, RequiredApproval
\* included when required approvers are configured, has its check Queued
\* before any collaborator is invoked or any check is moved to InProgress.
\* Stated on the runs whose status calls all succeed.
C13_Original == (RunAll /\ StatusCallsOk) => QueuedUpFront(ParticipatingChecks)

\* C13, amended: in a run-all run the Tests, PrEnvironmentSync and ProdDeploy
\* checks are Queued before any collaborator is invoked or any check is moved
\* to InProgress; the RequiredApproval check, when required approvers are
\* configured, is Queued only after the Tests stage has run and its check is
\* Completed, right before its own stage starts.
C13_QueuedUpFront ==
    RunAll =>
        /\ QueuedUpFront({TestCheckName, PrEnvironmentCheckName, ProdEnvironmentCheckName})
        /\ CreateCalls(RequiredApprovalCheckName) # {} =>
            /\ RequiredApproversConfigured
            /\ invoked["run_tests"] = 1
            /\ \E i \in CallsOf(TestCheckName) :
                /\ calls[i].kwargs["status"] = COMPLETED
                /\ \A j \in CreateCalls(RequiredApprovalCheckName) : i < j
        /\ \A i \in DOMAIN calls :
            (calls[i].op = "edit" /\ calls[i].handle \in
                    {calls[j].handle : j \in CreatedEntries(RequiredApprovalCheckName)}) =>
                QueuedBefore(RequiredApprovalCheckName, i)

\* A run-all run with required approvers in which Tests is Completed and the
\* RequiredApproval check has just been Queued.
C13_Witness ==
    /\ RunAll /\ RequiredApproversConfigured
    /\ pc = "_check_required_approvers_35"
    /\ StatusOf(TestCheckName) = COMPLETED
    /\ CheckIs(RequiredApprovalCheckName, QUEUED, None)
    /\ CheckIs(PrEnvironmentCheckName, QUEUED, None)
    /\ CheckIs(ProdEnvironmentCheckName, QUEUED, None)

\* The all-green scenario: the tests passed, a required approver approved or
\* none is required, update_pr_environment and deploy_to_prod were invoked,
\* and no collaborator raised.
AllGreen ==
    /\ test_result = "passed"
    /\ ~ RequiredApproversConfigured \/ GatePasses
    /\ invoked["update_pr_environment"] >= 1
    /\ invoked["deploy_to_prod"] >= 1
    /\ collaborator_errors = {} /\ plan_errors = {}

\* C14: in the all-green run-all run every non-omitted check ends
\* Completed/Success (the RequiredApproval check does not exist when none is
\* required), deploy_to_prod is invoked exactly once, and the run exits with
\* code 0; and once the three stages before it passed, the deploy is never
\* skipped.  The end state is that of the runs whose status calls succeed.
C14_AllGreen ==
    RunAll =>
        /\ (Ended /\ StatusCallsOk /\ AllGreen) =>
            /\ OverallSuccess
            /\ ~ RequiredApproversConfigured => StatusOf(RequiredApprovalCheckName) = None
            /\ invoked["deploy_to_prod"] = 1
            /\ raised = None /\ exit_code = "0"
        /\ AllStagesPassed => pc # "run_all_142"
        /\ (Returned /\ AllStagesPassed) => invoked["deploy_to_prod"] = 1

\* An all-green run-all run with required approvers that returned with four
\* checks Completed/Success.
C14_Witness ==
    /\ RunAll /\ Returned /\ AllGreen
    /\ RequiredApproversConfigured
    /\ \A name \in CheckNames : CheckIs(name, COMPLETED, SUCCESS)
    /\ exit_code = "0"

\* C15: an outbound status call (create_check_run or edit) that raises is
\* surfaced to the caller of the stage and of the command: the command ends at
\* once with that error, for every stage and every status, so the failed call
\* is the last call made and no stage conclusion is derived from it.
C15_StatusFailureSurfaces ==
    \A i \in DOMAIN calls :
        ~ calls[i].ok => (Ended /\ raised = "ApiError" /\ i = Len(calls))

\* The place of a status in the order Queued, InProgress, Completed.
StatusRank(status) ==
    CASE status = QUEUED -> 1
      [] status = IN_PROGRESS -> 2
      [] status = COMPLETED -> 3

\* The check name the i-th call is about: the name a create carries, the name
\* whose cached handle an edit is made on.
CheckOf(i) ==
    IF calls[i].op = "create" THEN calls[i].kwargs["name"]
    ELSE CHOOSE name \in DOMAIN check_run_mapping :
            check_run_mapping[name] = calls[i].handle

\* C16: for every check and every command (run-all or a single stage), the
\* statuses sent for the check, in the order of the calls, never go back in the
\* order Queued, InProgress, Completed.
C16_MonotonicStatuses ==
    \A i, j \in DOMAIN calls :
        (i < j /\ CheckOf(i) = CheckOf(j)) =>
            StatusRank(calls[i].kwargs["status"]) <= StatusRank(calls[j].kwargs["status"])

\* A run-all run that sent Queued, InProgress and Completed, in that order, for
\* the ProdDeploy check.
C16_Witness ==
    /\ RunAll
    /\ \E i, j, k \in CallsOf(ProdEnvironmentCheckName) :
        /\ i < j /\ j < k
        /\ calls[i].kwargs["status"] = QUEUED
        /\ calls[j].kwargs["status"] = IN_PROGRESS
        /\ calls[k].kwargs["status"] = COMPLETED

\* The check name an update_*_check method reports on.
MethodCheck(method) ==
    CASE method = "update_test_check" -> TestCheckName
      [] method = "update_required_approval_check" -> RequiredApprovalCheckName
      [] method = "update_pr_environment_check" -> PrEnvironmentCheckName
      [] method = "update_prod_environment_check" -> ProdEnvironmentCheckName

C20_Original ==
    \A i \in DOMAIN calls :
        /\ "started_at" \in DOMAIN calls[i].kwargs <=> calls[i].kwargs["status"] = IN_PROGRESS
        /\ "completed_at" \in DOMAIN calls[i].kwargs <=> calls[i].kwargs["status"] = COMPLETED

\* C20, amended: the outbound call that moves a check into Completed carries
\* completed_at, the time of the call, and no call with another status does;
\* the call that moves a check into InProgress carries started_at only when it
\* creates the check run (a single-stage command): an edit never carries
\* started_at, so in a run-all run, where every check run is created Queued,
\* no call carries started_at.  No call with a status other than InProgress
\* carries started_at.
C20_Timestamps ==
    /\ \A i \in DOMAIN calls :
        /\ "started_at" \in DOMAIN calls[i].kwargs <=>
                (calls[i].kwargs["status"] = IN_PROGRESS /\ calls[i].op = "create")
        /\ "started_at" \in DOMAIN calls[i].kwargs => calls[i].kwargs["started_at"] = i
        /\ "completed_at" \in DOMAIN calls[i].kwargs <=> calls[i].kwargs["status"] = COMPLETED
        /\ "completed_at" \in DOMAIN calls[i].kwargs => calls[i].kwargs["completed_at"] = i
    /\ RunAll => \A i \in DOMAIN calls : "started_at" \notin DOMAIN calls[i].kwargs

\* A run-all run that moved the Tests check to InProgress by an edit without
\* started_at and then to Completed with completed_at.
C20_Witness ==
    /\ RunAll
    /\ \E i, j \in CallsOf(TestCheckName) :
        /\ i < j
        /\ calls[i].op = "edit" /\ calls[i].kwargs["status"] = IN_PROGRESS
        /\ "started_at" \notin DOMAIN calls[i].kwargs
        /\ calls[j].kwargs["status"] = COMPLETED
        /\ "completed_at" \in DOMAIN calls[j].kwargs

\* C21: every create call carries the check name and the head commit of the
\* pull request, no edit call carries the name, the commit or started_at, and
\* the other fields are passed as they were requested: every call carries the
\* status and the output, completed_at when the status is Completed, and the
\* conclusion when one was given; a direct request's status and conclusion
\* arrive in its call unchanged.
C21_CreateAndEditFields ==
    /\ \A i \in DOMAIN calls :
        LET kwargs == calls[i].kwargs
            keys == DOMAIN kwargs
        IN  /\ calls[i].op = "create" =>
                /\ {"name", "head_sha"} \subseteq keys
                /\ kwargs["name"] \in CheckNames
                /\ kwargs["head_sha"] = HeadSha
            /\ calls[i].op = "edit" => keys \cap {"name", "head_sha", "started_at"} = {}
            /\ {"status", "output"} \subseteq keys
            /\ kwargs["status"] \in GithubCommitStatus
            /\ DOMAIN kwargs["output"] = {"title", "summary"}
            /\ kwargs["output"].summary # NoText
            /\ "completed_at" \in keys <=> kwargs["status"] = COMPLETED
            /\ keys \subseteq
                    {"name", "head_sha", "status", "started_at", "completed_at",
                     "conclusion", "output"}
    /\ (request.n > 0 /\ request.sent = 1) =>
        LET kwargs == calls[Len(calls)].kwargs
        IN  /\ kwargs["status"] = request.status
            /\ "conclusion" \in DOMAIN kwargs <=> request.conclusion # None
            /\ request.conclusion # None => kwargs["conclusion"] = request.conclusion

\* A run-all run that created the Tests check run with its name and the head
\* commit, and edited it to Completed with a conclusion, completed_at and the
\* output, without the name or the commit.
C21_Witness ==
    /\ RunAll
    /\ \E i, j \in CallsOf(TestCheckName) :
        /\ i < j
        /\ calls[i].op = "create" /\ calls[i].kwargs["head_sha"] = HeadSha
        /\ calls[j].op = "edit"
        /\ DOMAIN calls[j].kwargs = {"status", "conclusion", "completed_at", "output"}

\* The stages of run_all in their order, each with its check and its
\* collaborator; RequiredApproval takes part when required approvers are
\* configured.
StageOrder ==
    << "run_tests" >>
        \o (IF RequiredApproversConfigured THEN << "has_required_approval" >> ELSE << >>)
        \o << "update_pr_environment", "deploy_to_prod" >>

\* The check of a name was Completed by a call that returned, before the i-th
\* call.
CompletedBefore(name, i) ==
    \E j \in 1..(i - 1) :
        /\ j \in CallsOf(name)
        /\ calls[j].kwargs["status"] = COMPLETED

\* C22: the stages of a run-all run execute one after the other in the order
\* Tests, RequiredApproval, PrEnvironmentSync, ProdDeploy: a stage's check is
\* moved to InProgress, and its collaborator is invoked, only after the check
\* of the previous participating stage has reached Completed.
C22_StagesInOrder ==
    RunAll =>
        \A k \in 2..Len(StageOrder) :
            LET check == StageCheck(StageOrder[k])
                previous == StageCheck(StageOrder[k - 1])
            IN  /\ \A i \in DOMAIN calls :
                    (CheckOf(i) = check /\ calls[i].kwargs["status"] = IN_PROGRESS) =>
                        CompletedBefore(previous, i)
                /\ invoked[StageOrder[k]] > 0 =>
                    /\ StatusOf(previous) = COMPLETED
                    /\ invoked[StageOrder[k - 1]] = 1
                /\ invoked[StageOrder[k]] <= 1

\* A run-all run with required approvers that is deploying: the three checks
\* before ProdDeploy are Completed and the ProdDeploy check is InProgress.
C22_Witness ==
    /\ RunAll /\ RequiredApproversConfigured
    /\ invoked["deploy_to_prod"] = 1
    /\ StatusOf(TestCheckName) = COMPLETED
    /\ StatusOf(RequiredApprovalCheckName) = COMPLETED
    /\ StatusOf(PrEnvironmentCheckName) = COMPLETED
    /\ StatusOf(ProdEnvironmentCheckName) = IN_PROGRESS

C24_PrEnvironmentUnconditional ==
    RunAll =>
        /\ invoked["update_pr_environment"] <= 1
        /\ pc \in {"_update_pr_environment_83", "_update_pr_environment_88", "run_all_139",
                   "run_all_142", "_deploy_production_102", "_deploy_production_104",
                   "_deploy_production_105", "_deploy_production_111"} =>
                invoked["update_pr_environment"] = 1
        /\ Returned => invoked["update_pr_environment"] = 1
        /\ (Ended /\ invoked["update_pr_environment"] = 0) => raised # None
        /\ pc = "_update_pr_environment_80" =>
                /\ tests_passed \in {"True", "False"}
                /\ has_required_approval_ \in {"True", "False"}

\* A run-all run that returned after Tests failed and the approval was
\* missing, with update_pr_environment invoked once and its check Success.
C24_Witness ==
    /\ RunAll /\ Returned
    /\ tests_passed = "False" /\ has_required_approval_ = "False"
    /\ invoked["update_pr_environment"] = 1
    /\ CheckIs(PrEnvironmentCheckName, COMPLETED, SUCCESS)

\* ------------------------------------------------ TrinoEngineAdapter.drop_schema
\* The tables and views an engine may hold: two objects of test_schema, one of
\* another schema of the same catalog and one of the same schema name in
\* another catalog.
DataObject(catalog, schema, name, type) ==
    [catalog |-> catalog, schema |-> schema, name |-> name, type |-> type]
ObjectUniverse ==
    { DataObject("test_catalog", "test_schema", "test_table", "table"),
      DataObject("test_catalog", "test_schema", "test_view", "view"),
      DataObject("test_catalog", "ignore_schema", "test_table", "table"),
      DataObject("other_catalog", "test_schema", "test_table", "table") }
SchemaNames == {"test_schema", "ignore_schema"}
CatalogNames == {None, "test_catalog"}

\* The orders in which the rows of a query without ORDER BY may arrive.
RECURSIVE Orders(_)
Orders(objects) ==
    IF objects = {} THEN {<< >>}
    ELSE UNION {{<< o >> \o rest : rest \in Orders(objects \ {o})} : o \in objects}

\* catalog_name or connection.catalog; None stands for the ValueError.
__get_catalog_name(catalog_name) ==
    IF catalog_name # None THEN catalog_name ELSE trino_args.connection_catalog

\* The rows of information_schema.tables of the catalog whose table_schema is
\* the schema.
_get_data_objects(schema_name, catalog_name) ==
    {o \in engine_objects : o.catalog = catalog_name /\ o.schema = schema_name}

\* str(data_object): the qualified name of the object.
str(data_object) == << data_object.catalog, data_object.schema, data_object.name >>

\* The statements the base adapter sends to cursor.execute for drop_table and
\* drop_schema: exists and ignore_if_not_exists add IF EXISTS, cascade adds
\* CASCADE.
drop_table_sql(table_name, exists) ==
    [verb |-> "DROP TABLE", if_exists |-> exists, target |-> table_name,
     cascade |-> FALSE]
drop_schema_sql(schema_name, ignore_if_not_exists, cascade) ==
    [verb |-> "DROP SCHEMA", if_exists |-> ignore_if_not_exists,
     target |-> << schema_name >>, cascade |-> cascade]

ExecuteOutcomes == {"ok", "Error"}

\* cursor.execute: the statement reaches the cursor; an error of the engine
\* leaves drop_schema.
execute(sql, outcome) ==
    /\ executed' = Append(executed, sql)
    /\ trino_raised' = IF outcome = "ok" THEN None ELSE outcome

\* drop_table has exists=False passed to it.
drop_schema_93_exists == FALSE

check_run_vars ==
    << cmd, pc, config_users, pr_reviews, cache_vars, check_vars, count_vars,
       test_result, local_vars, deployed, raised, exit_code, request >>
controller_vars == << check_run_vars, comment_vars >>

\* line 88: the catalog of the call, or of the connection.
drop_schema_88 ==
    /\ trino_pc = "drop_schema_88"
    /\ LET catalog_name == __get_catalog_name(trino_args.catalog_name)
       IN  IF catalog_name = None
           THEN /\ trino_raised' = "ValueError"
                /\ trino_pc' = "done"
                /\ UNCHANGED trino_args
           ELSE /\ trino_args' = [trino_args EXCEPT !.catalog_name = catalog_name]
                /\ trino_pc' = IF trino_args.cascade THEN "drop_schema_90"
                               ELSE "drop_schema_95"
                /\ UNCHANGED trino_raised
    /\ UNCHANGED << engine_objects, data_objects, executed, controller_vars >>

\* line 90: the data objects of the schema are listed once, before the loop.
drop_schema_90 ==
    /\ trino_pc = "drop_schema_90"
    /\ \E rows \in Orders(_get_data_objects(trino_args.schema_name,
                                            trino_args.catalog_name)) :
          data_objects' = rows
    /\ trino_pc' = "drop_schema_91"
    /\ UNCHANGED << trino_args, engine_objects, executed, trino_raised, controller_vars >>

\* lines 90-94: one drop_table for the next data object, or the loop ends.
drop_schema_91 ==
    /\ trino_pc = "drop_schema_91"
    /\ IF data_objects = << >>
       THEN /\ trino_pc' = "drop_schema_95"
            /\ UNCHANGED << engine_objects, data_objects, executed, trino_raised >>
       ELSE \E outcome \in ExecuteOutcomes :
              /\ execute(drop_table_sql(str(Head(data_objects)), drop_schema_93_exists),
                         outcome)
              /\ data_objects' = Tail(data_objects)
              /\ engine_objects' = IF outcome = "ok"
                                   THEN engine_objects \ {Head(data_objects)}
                                   ELSE engine_objects
              /\ trino_pc' = IF outcome = "ok" THEN "drop_schema_91" ELSE "done"
    /\ UNCHANGED << trino_args, controller_vars >>

\* line 95: the schema is dropped by the base adapter, never with cascade.
drop_schema_95 ==
    /\ trino_pc = "drop_schema_95"
    /\ \E outcome \in ExecuteOutcomes :
          execute(drop_schema_sql(trino_args.schema_name,
                                  trino_args.ignore_if_not_exists, FALSE), outcome)
    /\ trino_pc' = "done"
    /\ UNCHANGED << trino_args, engine_objects, data_objects, controller_vars >>

\* The controller is constructed and none of its checks is called.
Constructed ==
    /\ config_users = << >>
    /\ pr_reviews = {}
    /\ reviews_cache = [fetched |-> FALSE, items |-> {}]
    /\ approvers_cache = {}
    /\ check_run_mapping = << >>
    /\ next_id = 1
    /\ clock = 1
    /\ calls = << >>
    /\ invoked = [c \in Collaborators |-> 0]
    /\ collaborator_errors = {}
    /\ plan_errors = {}
    /\ test_result = None
    /\ tests_passed = Unset
    /\ has_required_approval_ = Unset
    /\ pr_environment_updated = Unset
    /\ deployed = Unset
    /\ raised = None
    /\ exit_code = None
    /\ request = NoRequest

\* drop_schema is called once, with any arguments, on an engine holding any of
\* the objects.
TrinoInit ==
    /\ cmd = "drop_schema"
    /\ pc = "adapter"
    /\ Constructed
    /\ CommentIdle
    /\ trino_pc = "drop_schema_88"
    /\ trino_args \in [schema_name : SchemaNames, catalog_name : CatalogNames,
                       connection_catalog : CatalogNames,
                       ignore_if_not_exists : BOOLEAN, cascade : BOOLEAN]
    /\ engine_objects \in SUBSET ObjectUniverse
    /\ data_objects = << >>
    /\ executed = << >>
    /\ trino_raised = None

TrinoNext ==
    \/ drop_schema_88
    \/ drop_schema_90
    \/ drop_schema_91
    \/ drop_schema_95

TrinoSpec == TrinoInit /\ [][TrinoNext]_vars

\* The statements of a verb that reached the cursor, by position.
Statements(verb) == {i \in DOMAIN executed : executed[i].verb = verb}

\* drop_schema returned without an error.
DropSchemaReturned == trino_pc = "done" /\ trino_raised = None

\* The qualified names of the objects of the target schema.
TargetNames ==
    {str(o) : o \in {x \in ObjectUniverse :
                        /\ x.catalog = trino_args.catalog_name
                        /\ x.schema = trino_args.schema_name}}

\* C25: drop_schema with cascade=True issues one DROP TABLE IF EXISTS for every
\* data object of the target schema and none for an object of another schema,
\* and issues DROP SCHEMA exactly once, after all of those table drops: when
\* drop_schema has returned, every DROP TABLE carried IF EXISTS and named an
\* object of the target schema, no two named the same object, no object of
\* the target schema is left, and the one DROP SCHEMA came last.
C25_DropTableIfExists ==
    (DropSchemaReturned /\ trino_args.cascade) =>
        /\ \A i \in Statements("DROP TABLE") :
              /\ executed[i].if_exists
              /\ executed[i].target \in TargetNames
        /\ \A i, j \in Statements("DROP TABLE") :
              executed[i].target = executed[j].target => i = j
        /\ \A o \in engine_objects : str(o) \notin TargetNames
        /\ Cardinality(Statements("DROP SCHEMA")) = 1
        /\ \A i \in Statements("DROP TABLE"), j \in Statements("DROP SCHEMA") : i < j

\* ------------------------------------------------ update_sqlmesh_comment_info
MaxComments == 3
MaxCommentCalls == 2

\* A comment body is the sequence of its lines.
comment_header == "**SQLMesh Bot Info**"
EnvironmentPattern == ":eyes: PR Virtual Data Environment: .*"
EnvironmentLines ==
    { ":eyes: PR Virtual Data Environment: pr_1",
      ":eyes: PR Virtual Data Environment: pr_2" }
PlanSummaryLine == "<details><summary>Plan Summary</summary></details>"
CommentValues == EnvironmentLines \cup {PlanSummaryLine}
CommentPatterns == {None, EnvironmentPattern}

\* The bodies found on the pull request before the bot runs: a reviewer's
\* remark, a reviewer quoting the bot, and the bot comment with and without
\* the environment line.
UserBodies == { << "LGTM" >>, << "> **SQLMesh Bot Info**", "what is this?" >> }
BotBodies ==
    { << comment_header >>,
      << comment_header, ":eyes: PR Virtual Data Environment: pr_1" >> }

\* comment_header in comment.body
HeaderIn(body) ==
    \E i \in DOMAIN body : body[i] \in {comment_header, "> **SQLMesh Bot Info**"}

\* The lines a pattern matches; .* stays within a line.
Matches(find_regex, line) ==
    find_regex = EnvironmentPattern /\ line \in EnvironmentLines

\* re.findall and re.sub over the lines of a body.
findall(find_regex, body) == SelectSeq(body, LAMBDA line : Matches(find_regex, line))
sub(find_regex, value, body) ==
    [i \in DOMAIN body |-> IF Matches(find_regex, body[i]) THEN value ELSE body[i]]

\* seq_get: the element at a 0-based index, or None.
seq_get(seq, index) == IF index + 1 \in DOMAIN seq THEN seq[index + 1] ELSE None

\* lines 367-371 with the non-replacing branch appending the value.
EditedBody_appends_when_kept(body, value, find_regex, replace_if_exists, existing_value) ==
    IF existing_value # None /\ replace_if_exists
    THEN sub(find_regex, value, body)
    ELSE Append(body, value)

\* lines 367-371: the body the comment has when the method returns.
EditedBody(body, value, find_regex, replace_if_exists, existing_value) ==
    IF existing_value # None
    THEN IF replace_if_exists THEN sub(find_regex, value, body) ELSE body
    ELSE Append(body, value)

other_vars == << check_run_vars, trino_vars >>

update_sqlmesh_comment_info ==
    /\ cmd = "comment"
    /\ comment_request.n < MaxCommentCalls
    /\ \E value \in CommentValues, find_regex \in CommentPatterns,
          replace_if_exists \in BOOLEAN :
          LET found == SelectSeq([i \in DOMAIN issue_comments |-> i],
                                 LAMBDA i : HeaderIn(issue_comments[i]))
              comments == IF found = << >>
                          THEN Append(issue_comments, << comment_header >>)
                          ELSE issue_comments
              at == IF found = << >> THEN Len(comments) ELSE seq_get(found, 0)
              existing_value == IF find_regex # None
                                THEN seq_get(findall(find_regex, comments[at]), 0)
                                ELSE None
          IN  /\ issue_comments' =
                    [comments EXCEPT ![at] = EditedBody(comments[at], value, find_regex,
                                                        replace_if_exists, existing_value)]
              /\ comment_request' =
                    [n |-> comment_request.n + 1, value |-> value,
                     find_regex |-> find_regex, replace_if_exists |-> replace_if_exists,
                     before |-> issue_comments]
    /\ UNCHANGED other_vars

\* Somebody comments on the pull request.
UserComment ==
    /\ cmd = "comment"
    /\ Len(issue_comments) < MaxComments
    /\ \E body \in UserBodies : issue_comments' = Append(issue_comments, body)
    /\ UNCHANGED << comment_request, other_vars >>

\* The method is called on a pull request that has at most one comment.
CommentInit ==
    /\ cmd = "comment"
    /\ pc = "caller"
    /\ Constructed
    /\ TrinoIdle
    /\ issue_comments \in {<< >>} \cup {<< body >> : body \in UserBodies \cup BotBodies}
    /\ comment_request = NoCommentRequest

CommentNext ==
    \/ update_sqlmesh_comment_info
    \/ UserComment

CommentSpec == CommentInit /\ [][CommentNext]_vars

\* The comments that contain the bot header, by position.
BotComments(comments) == {i \in DOMAIN comments : HeaderIn(comments[i])}

\* C26: update_sqlmesh_comment_info creates a bot comment only when no
\* existing comment contains the bot header; when the lookup pattern already
\* matches the comment and replace_if_exists is False the body is left
\* unchanged, when it matches and replace_if_exists is True the match is
\* replaced by the value, and when it does not match the value is appended;
\* no other comment changes.
C26_CommentUpdate ==
    [][comment_request'.n # comment_request.n =>
        LET bot == BotComments(issue_comments)
            at == IF bot = {} THEN Len(issue_comments) + 1
                  ELSE CHOOSE i \in bot : \A j \in bot : i <= j
            old == IF bot = {} THEN << comment_header >> ELSE issue_comments[at]
            new == issue_comments'[at]
            matched == \E i \in DOMAIN old : Matches(comment_request'.find_regex, old[i])
        IN  /\ Len(issue_comments') = Len(issue_comments) + (IF bot = {} THEN 1 ELSE 0)
            /\ \A i \in DOMAIN issue_comments :
                  i # at => issue_comments'[i] = issue_comments[i]
            /\ (matched /\ ~comment_request'.replace_if_exists) => new = old
            /\ (matched /\ comment_request'.replace_if_exists) =>
                  /\ Len(new) = Len(old)
                  /\ \A i \in DOMAIN old :
                        new[i] = IF Matches(comment_request'.find_regex, old[i])
                                 THEN comment_request'.value ELSE old[i]
            /\ ~matched => new = Append(old, comment_request'.value)
    ]_vars

\* A call with replace_if_exists False found the environment line in the bot
\* comment and left the comments as they were.
C26_Witness ==
    /\ comment_request.n > 0
    /\ comment_request.find_regex = EnvironmentPattern
    /\ ~comment_request.replace_if_exists
    /\ \E i \in BotComments(comment_request.before) :
          \E j \in DOMAIN comment_request.before[i] :
              comment_request.before[i][j] \in EnvironmentLines
    /\ issue_comments = comment_request.before

\* The Completed updates that reached the check run of a name.
CompletedCallsOf(name) == {i \in CallsOf(name) : calls[i].kwargs["status"] = COMPLETED}

\* The calls sent for a name, whether or not they returned.
SentFor(name) ==
    {i \in DOMAIN calls :
        \/ i \in CreateCalls(name)
        \/ \E j \in CreatedEntries(name) : calls[j].handle = calls[i].handle}

\* C27: in every run-all run that returns without raising, each created check
\* has received exactly one Completed update, that update carries a
\* conclusion, and no update for the check is sent after it.
C27_OneCompletedUpdate ==
    (RunAll /\ Returned) =>
        \A name \in DOMAIN check_run_mapping :
            /\ Cardinality(CompletedCallsOf(name)) = 1
            /\ \A i \in CompletedCallsOf(name) :
                  /\ "conclusion" \in DOMAIN calls[i].kwargs
                  /\ calls[i].kwargs["conclusion"] \in GithubCommitConclusion
                  /\ \A j \in SentFor(name) : j <= i

\* A run-all run returned after a Completed/Success update of Tests failed to
\* reach the host and the Completed/Failure update that followed did.
C27_Witness ==
    /\ RunAll /\ Returned
    /\ \E i \in SentFor(TestCheckName) :
          /\ ~ calls[i].ok
          /\ calls[i].kwargs["status"] = COMPLETED
    /\ Cardinality(CompletedCallsOf(TestCheckName)) = 1
    /\ DOMAIN check_run_mapping = CheckNames

\* _update_pr_environment returned to its caller.
PrEnvironmentStageFinished == pr_environment_updated # Unset

\* C28 as stated: the PrEnvironmentSync check concludes ActionRequired only if
\* update_pr_environment itself raised PlanError; whenever update_pr_environment
\* returned normally and the stage finished, the check concludes Success and
\* the stage reports passed, even if building the success summary raised
\* PlanError.
C28_Original ==
    PrEnvironmentStageFinished =>
        /\ ConclusionOf(PrEnvironmentCheckName) = ACTION_REQUIRED
              => "update_pr_environment" \in plan_errors
        /\ "update_pr_environment" \notin plan_errors =>
              /\ CheckIs(PrEnvironmentCheckName, COMPLETED, SUCCESS)
              /\ pr_environment_updated = "True"

\* C28, amended: the PrEnvironmentSync check concludes ActionRequired only if
\* PlanError was raised inside the stage's try block, by update_pr_environment
\* or while the success summary was built; whenever neither raised it and the
\* stage finished, the check concludes Success and the stage reports passed;
\* when update_pr_environment returned and building the summary raised
\* PlanError, the check concludes ActionRequired and the stage reports
\* not-passed.
C28_ActionRequiredFromTryBlock ==
    PrEnvironmentStageFinished =>
        /\ ConclusionOf(PrEnvironmentCheckName) = ACTION_REQUIRED
              => plan_errors \cap {"update_pr_environment", "update_pr_environment_check"} # {}
        /\ plan_errors \cap {"update_pr_environment", "update_pr_environment_check"} = {} =>
              /\ CheckIs(PrEnvironmentCheckName, COMPLETED, SUCCESS)
              /\ pr_environment_updated = "True"
        /\ "update_pr_environment_check" \in plan_errors =>
              /\ invoked["update_pr_environment"] = 1
              /\ "update_pr_environment" \notin plan_errors
              /\ CheckIs(PrEnvironmentCheckName, COMPLETED, ACTION_REQUIRED)
              /\ pr_environment_updated = "False"

\* A run-all run returned after update_pr_environment returned normally and
\* building the success summary raised PlanError.
C28_Witness ==
    /\ RunAll /\ Returned
    /\ invoked["update_pr_environment"] = 1
    /\ "update_pr_environment_check" \in plan_errors
    /\ CheckIs(PrEnvironmentCheckName, COMPLETED, ACTION_REQUIRED)
    /\ pr_environment_updated = "False"

\* C29: when deploy_to_prod raises PlanError, the error does not leave the
\* stage: the stage reports Completed/ActionRequired on the ProdDeploy check
\* and returns not-passed, and the command returns unless that status call
\* fails; deploy_to_prod is invoked at most once per run, and the ProdDeploy
\* check never shows Success unless deploy_to_prod returned normally.
C29_DeployPlanError ==
    /\ invoked["deploy_to_prod"] <= 1
    /\ "deploy_to_prod" \in plan_errors =>
          /\ raised \notin {"PlanError", "Error"}
          /\ pc \in {"_deploy_production_111", "done"}
          /\ Returned =>
                /\ CheckIs(ProdEnvironmentCheckName, COMPLETED, ACTION_REQUIRED)
                /\ deployed = "False"
          /\ (Ended /\ StatusCallsOk) => Returned
    /\ ConclusionOf(ProdEnvironmentCheckName) = SUCCESS =>
          /\ invoked["deploy_to_prod"] = 1
          /\ "deploy_to_prod" \notin (plan_errors \cup collaborator_errors)

\* A run-all run returned after deploy_to_prod raised PlanError.
C29_Witness ==
    /\ RunAll /\ Returned
    /\ "deploy_to_prod" \in plan_errors
    /\ CheckIs(ProdEnvironmentCheckName, COMPLETED, ACTION_REQUIRED)
    /\ deployed = "False"

====
